---- MODULE Spec2Model ----
(***************************************************************************)
(* Vision MCP server (vision_mcp.py): the global camera session _CAM, the  *)
(* six tools list_cameras, vision_start, vision_status, vision_capture,    *)
(* vision_burst and vision_stop, and the device-capture handles they       *)
(* acquire and release.                                                    *)
(*                                                                         *)
(* Tool calls are served one at a time (stdio request/response): a call    *)
(* starts only when pc = "idle", runs to its return (pc = "returned",      *)
(* with its return value in result and what it did to the device and the   *)
(* filesystem in log), and Reply hands the value to the transport.  The    *)
(* two loops (the probe loop of list_cameras, the frame loop of            *)
(* vision_burst) advance one iteration per step.  What the device, the     *)
(* encoder and the filesystem answer is an input of the step that asks.    *)
(*                                                                         *)
(* Time inside a burst is counted in milliseconds; only the read, encode   *)
(* and write of a frame take time, and time.sleep(d) ends exactly d later. *)
(***************************************************************************)
EXTENDS Integers, Sequences, FiniteSets, TLC

VARIABLES CAM, handles, opened, pc, probe, burst, log, result

vars == <<CAM, handles, opened, pc, probe, burst, log, result>>

\* ---------------------------------------------------------------- bounds
MaxCam == 1          \* vision_start camera_index in 0..MaxCam
MaxIndex == 2        \* list_cameras max_index in -1..MaxIndex
MaxN == 3            \* vision_burst n in 0..MaxN
MaxWarmup == 1       \* vision_burst warmup in -1..MaxWarmup
MaxPeriod == 2       \* vision_burst period_ms in -1..MaxPeriod
MaxDuration == 5     \* vision_burst duration_ms in 0..MaxDuration
SlowIteration == 3   \* what a slow read, encode and write take (fast ones take 0)

\* ---------------------------------------------------------------- values
None == <<>>
Some(x) == <<x>>
EmptyProps == <<>>

CameraIndexes == 0 .. MaxCam
SizeArgs == {[width |-> 640, height |-> 480, fps |-> 15],
             [width |-> 0, height |-> 0, fps |-> 0]}
BackendArgs == {"", " V4L2 ", "bogus"}
FormatArgs == {"jpg", "JPG", "png", "xyz"}
DeviceAnswers == {[width |-> 640, height |-> 480, fps |-> 30],
                  [width |-> 0, height |-> 0, fps |-> 0]}
OpenOutcomes == {"opens", "fails", "raises"}
ProbeOutcomes == {"opens", "fails", "ctor_raises", "get_raises"}
Durations == {0, SlowIteration}

Max(a, b) == IF a >= b THEN a ELSE b

\* backend.lower().strip() if backend else "auto"
LowerStrip(backend) ==
    CASE backend = "" -> "auto"
      [] backend = " V4L2 " -> "v4l2"
      [] OTHER -> backend

\* fmt.lower()
Lower(fmt) == IF fmt = "JPG" THEN "jpg" ELSE fmt

Ext(fmt) == IF Lower(fmt) = "jpg" THEN ".jpg" ELSE ".png"

Mime(ext) == IF ext = ".jpg" THEN "image/jpeg" ELSE "image/png"

\* int(_CAM["props"].get(key, 0))
PropsGet(props, key) == IF key \in DOMAIN props THEN props[key] ELSE 0

\* ---------------------------------------------------------------- handles
\* handles: the device handles acquired and not yet released; opened: those
\* whose isOpened() answers True.  A VideoCapture object is named by the id
\* of the handle it holds, and by NoDevice when its open failed.
NoDevice == 0

NewHandle == CHOOSE h \in 1 .. (Cardinality(handles) + 1) : h \notin handles

\* cap.isOpened()
IsOpened(cap, op) == cap[1] \in op

NotOpenWithoutNoneCheck(cap, op) == cap # None /\ ~IsOpened(cap, op)

\* cap is None or not cap.isOpened()
NotOpen(cap, op) == cap = None \/ ~IsOpened(cap, op)

\* cap.release()
Release(hs, h) == hs \ {h}

\* Between two steps the device behind the session's handle may stop
\* reporting itself ready; the next step sees it.
Observe(lost) == IF lost /\ CAM.cap # None THEN opened \ {CAM.cap[1]} ELSE opened

\* What a call has done to the device and the filesystem, in order: ev in
\* {"acquire", "release", "warmup", "read", "encode", "mkdir", "write"}, i the
\* frame or camera index, ok the outcome, h the handle (NoDevice when none).
Ev(ev, i, ok, h) == [ev |-> ev, i |-> i, ok |-> ok, h |-> h]

NoProbe == [max_index |-> 0, i |-> 0, cap |-> None, results |-> <<>>]
NoBurst == [n_arg |-> 0, n |-> 0, period_ms |-> 0, duration_ms |-> 0, ext |-> ".jpg",
            t0 |-> 0, clock |-> 0, i |-> 0, paths |-> <<>>,
            last_i |-> -1, last_now |-> 0, last_start |-> 0]
NoResult == [op |-> "none"]

Running(op) == [op |-> op, running |-> TRUE]

Raised(op, exc) == [op |-> op, raised |-> exc]

Failure(op, error) == [op |-> op, ok |-> FALSE, error |-> error]

Init ==
    /\ CAM = [cap |-> None, index |-> None, props |-> EmptyProps]
    /\ handles = {}
    /\ opened = {}
    /\ pc = "idle"
    /\ probe = NoProbe
    /\ burst = NoBurst
    /\ log = <<>>
    /\ result = NoResult

\* the return value goes to the transport, which then takes the next request
Reply ==
    /\ pc = "returned"
    /\ pc' = "idle"
    /\ result' = NoResult
    /\ log' = <<>>
    /\ probe' = NoProbe
    /\ burst' = NoBurst
    /\ UNCHANGED <<CAM, handles, opened>>

\* ---------------------------------------------------------------- session
NeverAlreadyOpen(cam) == FALSE

\* _open_cam: if _CAM["cap"] is not None
AlreadyOpen(cam) == cam.cap # None

\* _open_cam: the three assignments
OpenedCam(h, camera_index, actual) ==
    [cap |-> Some(h), index |-> Some(camera_index), props |-> actual]

ClosedCamKeepingProps(cam) == [cap |-> None, index |-> None, props |-> cam.props]

\* _close_cam: the three assignments
ClosedCam(cam) == [cap |-> None, index |-> None, props |-> EmptyProps]

StartReturn(ok, msg, cam) ==
    [op |-> "vision_start", ok |-> ok, message |-> msg,
     props |-> cam.props, index |-> cam.index]

vision_start(camera_index, size, backend, outcome, answer, lost) ==
    /\ pc = "idle"
    /\ pc' = "returned"
    /\ UNCHANGED <<probe, burst>>
    /\ IF AlreadyOpen(CAM)
       THEN /\ result' = StartReturn(TRUE, [text |-> "Camera already open"], CAM)
            /\ opened' = Observe(lost)
            /\ UNCHANGED <<CAM, handles, log>>
       ELSE LET be == LowerStrip(backend)
                h == NewHandle
                actual == [width |-> answer.width, height |-> answer.height,
                           fps |-> answer.fps, backend |-> be]
            IN CASE outcome = "raises" ->
                      /\ result' = Raised("vision_start", "cv2.error")
                      /\ UNCHANGED <<CAM, handles, opened, log>>
                 [] outcome = "fails" ->
                      /\ result' = StartReturn(FALSE,
                             [text |-> "Failed to open camera index",
                              index |-> camera_index, backend |-> be], CAM)
                      /\ UNCHANGED <<CAM, handles, opened, log>>
                 [] OTHER ->
                      /\ handles' = handles \cup {h}
                      /\ opened' = opened \cup {h}
                      /\ log' = <<Ev("acquire", camera_index, TRUE, h)>>
                      /\ CAM' = OpenedCam(h, camera_index, actual)
                      /\ result' = StartReturn(TRUE, [text |-> "Camera opened"], CAM')

\* vision_status: the dict it returns
StatusReport(cam, op) ==
    [op |-> "vision_status", open |-> cam.cap # None /\ IsOpened(cam.cap, op),
     index |-> cam.index, props |-> cam.props]

vision_status(lost) ==
    /\ pc = "idle"
    /\ pc' = "returned"
    /\ opened' = Observe(lost)
    /\ result' = StatusReport(CAM, opened')
    /\ UNCHANGED <<CAM, handles, probe, burst, log>>

\* vision_stop: _close_cam() and the return
vision_stop ==
    /\ pc = "idle"
    /\ pc' = "returned"
    /\ IF CAM.cap # None
       THEN /\ handles' = Release(handles, CAM.cap[1])
            /\ opened' = Release(opened, CAM.cap[1])
            /\ log' = <<Ev("release", CAM.index[1], TRUE, CAM.cap[1])>>
       ELSE UNCHANGED <<handles, opened, log>>
    /\ CAM' = ClosedCam(CAM)
    /\ result' = [op |-> "vision_stop", ok |-> TRUE]
    /\ UNCHANGED <<probe, burst>>

\* ---------------------------------------------------------------- list_cameras
list_cameras(max_index) ==
    /\ pc = "idle"
    /\ probe' = [NoProbe EXCEPT !.max_index = max_index]
    /\ IF max_index > 0
       THEN pc' = "probe_try" /\ result' = Running("list_cameras")
       ELSE pc' = "returned" /\ result' = [op |-> "list_cameras", cameras |-> <<>>]
    /\ UNCHANGED <<CAM, handles, opened, burst, log>>

\* the dict appended to results for index i
Entry(i, open, answer, error) ==
    IF open
    THEN [index |-> i, open |-> TRUE, width |-> answer.width,
          height |-> answer.height, fps |-> answer.fps]
    ELSE IF error THEN [index |-> i, open |-> FALSE, error |-> "cv2.error"]
    ELSE [index |-> i, open |-> FALSE]

\* the try body of one iteration, with its except clause
ProbeTry(outcome, answer) ==
    /\ pc = "probe_try"
    /\ pc' = "probe_finally"
    /\ LET i == probe.i
           h == NewHandle
           acquires == outcome \in {"opens", "get_raises"}
       IN /\ handles' = IF acquires THEN handles \cup {h} ELSE handles
          /\ opened' = IF acquires THEN opened \cup {h} ELSE opened
          /\ log' = IF acquires THEN Append(log, Ev("acquire", i, TRUE, h)) ELSE log
          /\ probe' = [probe EXCEPT
                 !.cap = CASE outcome = "ctor_raises" -> @
                           [] outcome = "fails" -> Some(NoDevice)
                           [] OTHER -> Some(h),
                 !.results = Append(@, Entry(i, outcome = "opens", answer,
                                             outcome \in {"ctor_raises", "get_raises"}))]
    /\ UNCHANGED <<CAM, burst, result>>

ProbeReleaseNothing(hs, cap) == hs

\* the finally clause: if 'cap' in locals() and cap: cap.release()
ProbeRelease(hs, cap) == IF cap # None THEN Release(hs, cap[1]) ELSE hs

MoreToProbeOffByOne(i, max_index) == i + 1 < max_index - 1

\* for i in range(max_index): whether an iteration follows iteration i
MoreToProbe(i, max_index) == i + 1 < max_index

ProbeFinally ==
    /\ pc = "probe_finally"
    /\ handles' = ProbeRelease(handles, probe.cap)
    /\ opened' = ProbeRelease(opened, probe.cap)
    /\ log' = IF probe.cap # None /\ probe.cap[1] \notin handles'
              THEN Append(log, Ev("release", probe.i, TRUE, probe.cap[1]))
              ELSE log
    /\ probe' = [probe EXCEPT !.i = @ + 1]
    /\ IF MoreToProbe(probe.i, probe.max_index)
       THEN pc' = "probe_try" /\ UNCHANGED result
       ELSE pc' = "returned" /\ result' = [op |-> "list_cameras", cameras |-> probe.results]
    /\ UNCHANGED <<CAM, burst>>

\* ---------------------------------------------------------------- frames
\* _grab_frame: (ok, msg), and whether cap.read() was called
grab_frame(cam, op, readOk) ==
    IF NotOpen(cam.cap, op)
    THEN [ok |-> FALSE, msg |-> "Camera not open", read |-> FALSE]
    ELSE IF ~readOk THEN [ok |-> FALSE, msg |-> "Failed to read frame", read |-> TRUE]
    ELSE [ok |-> TRUE, msg |-> "ok", read |-> TRUE]

vision_capture(format, lost, readOk, encOk, mkdirOk, writeOk) ==
    /\ pc = "idle"
    /\ pc' = "returned"
    /\ opened' = Observe(lost)
    /\ UNCHANGED <<CAM, handles, probe, burst>>
    /\ LET op == "vision_capture"
           g == grab_frame(CAM, opened', readOk)
           ext == Ext(format)
           grabbed == IF g.read THEN <<Ev("read", 0, g.ok, NoDevice)>> ELSE <<>>
           encoded == Append(grabbed, Ev("encode", 0, encOk, NoDevice))
           made == Append(encoded, Ev("mkdir", 0, mkdirOk, NoDevice))
           written == Append(made, Ev("write", 0, writeOk, NoDevice))
       IN CASE ~g.ok -> log' = grabbed /\ result' = Failure(op, g.msg)
            [] g.ok /\ ~encOk -> log' = encoded /\ result' = Failure(op, "cv2.imencode failed")
            [] g.ok /\ encOk /\ ~mkdirOk -> log' = made /\ result' = Raised(op, "OSError")
            [] g.ok /\ encOk /\ mkdirOk /\ ~writeOk ->
                 log' = written /\ result' = Failure(op, "Failed to write file")
            [] OTHER ->
                 /\ log' = written
                 /\ result' = [op |-> op, ok |-> TRUE,
                               path |-> [prefix |-> "frame", ext |-> ext],
                               mime |-> Mime(ext),
                               width |-> PropsGet(CAM.props, "width"),
                               height |-> PropsGet(CAM.props, "height")]

\* ---------------------------------------------------------------- vision_burst
RoundDown(num, den) == IF (num < 0) = (den < 0) THEN num \div den ELSE -((-num) \div den)

\* int(round(float(num) / float(den))) for den # 0: the quotient rounded to the
\* nearest integer, a tie to the even one (Python 3's round)
Round(num, den) ==
    LET a == IF den < 0 THEN -num ELSE num
        b == IF den < 0 THEN -den ELSE den
        q == a \div b
        r == a % b
    IN IF 2 * r < b THEN q
       ELSE IF 2 * r > b THEN q + 1
       ELSE IF q % 2 = 0 THEN q ELSE q + 1

\* n after "compute n from duration if provided"
ComputeN(n, period_ms, duration_ms) ==
    IF duration_ms > 0 THEN Max(1, Round(duration_ms, period_ms)) ELSE n

\* range(max(1, int(n)))
LoopCount(n) == Max(1, n)

\* period_s = max(0.0, float(period_ms) / 1000.0), kept in milliseconds
PeriodS(period_ms) == Max(0, period_ms)

TargetOfNextFrame(t0, i, period_s) == t0 + (i + 1) * period_s

\* target = t0 + i * period_s
Target(t0, i, period_s) == t0 + i * period_s

\* if target > now: time.sleep(target - now); the instant the read starts
SleepUntil(target, now) == IF target > now THEN now + (target - now) ELSE now

\* f"asl_{ts}_{ms:03d}_{i:02d}{ext}"
BurstPath(i, ext) == [prefix |-> "asl", i |-> i, ext |-> ext]

NoPaths(paths) == <<>>

\* "paths": paths of a return from inside the loop
PathsSoFar(paths) == paths

\* for _ in range(max(0, int(warmup))): cap.read()
WarmupReads(warmup) ==
    [k \in 1 .. Max(0, warmup) |-> Ev("warmup", k - 1, TRUE, NoDevice)]

\* vision_burst up to the frame loop
vision_burst(n, period_ms, format, warmup, duration_ms, lost, mkdirOk) ==
    /\ pc = "idle"
    /\ opened' = Observe(lost)
    /\ UNCHANGED <<CAM, handles, probe>>
    /\ LET op == "vision_burst"
           args == [NoBurst EXCEPT !.n_arg = n, !.period_ms = period_ms,
                                   !.duration_ms = duration_ms, !.ext = Ext(format)]
       IN CASE NotOpen(CAM.cap, opened') ->
                 /\ result' = Failure(op, "Camera not open")
                 /\ log' = <<>> /\ burst' = args /\ pc' = "returned"
            [] ~NotOpen(CAM.cap, opened') /\ duration_ms > 0 /\ period_ms = 0 ->
                 /\ result' = Raised(op, "ZeroDivisionError")
                 /\ log' = <<>> /\ burst' = args /\ pc' = "returned"
            [] OTHER ->
                 /\ log' = Append(WarmupReads(warmup), Ev("mkdir", 0, mkdirOk, NoDevice))
                 /\ burst' = [args EXCEPT !.n = ComputeN(n, period_ms, duration_ms)]
                 /\ IF mkdirOk
                    THEN pc' = "burst" /\ result' = Running(op)
                    ELSE pc' = "returned" /\ result' = Raised(op, "OSError")

\* one iteration of the frame loop, and the return that follows the last one
BurstFrame(lost, readOk, encOk, writeOk, took) ==
    /\ pc = "burst"
    /\ opened' = Observe(lost)
    /\ UNCHANGED <<CAM, handles, probe>>
    /\ LET op == "vision_burst"
           i == burst.i
           target == Target(burst.t0, i, PeriodS(burst.period_ms))
           now == burst.clock
           start == SleepUntil(target, now)
           g == grab_frame(CAM, opened', readOk)
           grabbed == IF g.read THEN Append(log, Ev("read", i, g.ok, NoDevice)) ELSE log
           encoded == Append(grabbed, Ev("encode", i, encOk, NoDevice))
           written == Append(encoded, Ev("write", i, writeOk, NoDevice))
           paths == Append(burst.paths, BurstPath(i, burst.ext))
           early == [paths |-> PathsSoFar(burst.paths)]
           timed == [burst EXCEPT !.last_i = i, !.last_now = now, !.last_start = start]
       IN CASE ~g.ok ->
                 /\ log' = grabbed /\ pc' = "returned"
                 /\ burst' = [timed EXCEPT !.clock = start]
                 /\ result' = Failure(op, "Failed to read frame: " \o g.msg) @@ early
            [] g.ok /\ ~encOk ->
                 /\ log' = encoded /\ pc' = "returned"
                 /\ burst' = [timed EXCEPT !.clock = start]
                 /\ result' = Failure(op, "cv2.imencode failed") @@ early
            [] g.ok /\ encOk /\ ~writeOk ->
                 /\ log' = written /\ pc' = "returned"
                 /\ burst' = [timed EXCEPT !.clock = start + took]
                 /\ result' = Raised(op, "OSError")
            [] OTHER ->
                 /\ log' = written
                 /\ burst' = [timed EXCEPT !.i = i + 1, !.clock = start + took,
                                           !.paths = paths]
                 /\ IF i + 1 < LoopCount(burst.n)
                    THEN pc' = "burst" /\ UNCHANGED result
                    ELSE /\ pc' = "returned"
                         /\ result' = [op |-> op, ok |-> TRUE, paths |-> paths,
                                       mime |-> Mime(burst.ext),
                                       width |-> PropsGet(CAM.props, "width"),
                                       height |-> PropsGet(CAM.props, "height"),
                                       n |-> Len(paths),
                                       period_ms |-> burst.period_ms,
                                       duration_ms |-> burst.duration_ms]

\* ---------------------------------------------------------------- specifications
\* Spec: every tool, over every session the inputs of vision_start can make,
\* with a few bursts of at most two frames.
FewCounts == {0, 2}
FewPeriods == {0, 2}
FewDurations == {0, 3}
FewWarmups == {0, 1}
FewFormats == {"jpg", "xyz"}

Next ==
    \/ \E max_index \in -1 .. MaxIndex : list_cameras(max_index)
    \/ \E outcome \in ProbeOutcomes, answer \in DeviceAnswers : ProbeTry(outcome, answer)
    \/ ProbeFinally
    \/ \E camera_index \in CameraIndexes, size \in SizeArgs, backend \in BackendArgs,
          outcome \in OpenOutcomes, answer \in DeviceAnswers, lost \in BOOLEAN :
          vision_start(camera_index, size, backend, outcome, answer, lost)
    \/ \E lost \in BOOLEAN : vision_status(lost)
    \/ \E format \in FormatArgs, lost, readOk, encOk, mkdirOk, writeOk \in BOOLEAN :
          vision_capture(format, lost, readOk, encOk, mkdirOk, writeOk)
    \/ \E n \in FewCounts, period_ms \in FewPeriods, format \in FewFormats,
          warmup \in FewWarmups, duration_ms \in FewDurations, lost, mkdirOk \in BOOLEAN :
          vision_burst(n, period_ms, format, warmup, duration_ms, lost, mkdirOk)
    \/ \E lost, readOk, encOk, writeOk \in BOOLEAN, took \in Durations :
          BurstFrame(lost, readOk, encOk, writeOk, took)
    \/ vision_stop
    \/ Reply

Spec == Init /\ [][Next]_vars

\* BurstSpec: every burst within the bounds, on the session that the default
\* arguments of vision_start open.
DefaultSize == [width |-> 640, height |-> 480, fps |-> 15]
NativeAnswer == [width |-> 640, height |-> 480, fps |-> 30]

NextBurst ==
    \/ \E outcome \in OpenOutcomes, lost \in BOOLEAN :
          vision_start(0, DefaultSize, "", outcome, NativeAnswer, lost)
    \/ \E n \in 0 .. MaxN, period_ms \in -1 .. MaxPeriod, format \in FormatArgs,
          warmup \in -1 .. MaxWarmup, duration_ms \in 0 .. MaxDuration,
          lost, mkdirOk \in BOOLEAN :
          vision_burst(n, period_ms, format, warmup, duration_ms, lost, mkdirOk)
    \/ \E lost, readOk, encOk, writeOk \in BOOLEAN, took \in Durations :
          BurstFrame(lost, readOk, encOk, writeOk, took)
    \/ vision_stop
    \/ Reply

BurstSpec == Init /\ [][NextBurst]_vars

\* ---------------------------------------------------------------- properties
SessionHandles == IF CAM.cap = None THEN {} ELSE {CAM.cap[1]}

Returned(op) == pc = "returned" /\ result.op = op

Events(ev) == SelectSeq(log, LAMBDA e : e.ev = ev)

Indexes(events) == [k \in 1 .. Len(events) |-> events[k].i]

UpTo(count) == [k \in 1 .. count |-> k - 1]

BurstPaths(count) == [k \in 1 .. count |-> BurstPath(k - 1, burst.ext)]

Abs(x) == IF x < 0 THEN -x ELSE x

\* r is the integer nearest to d / p, the even one of the two when d / p lies
\* halfway between them
IsNearest(r, d, p) ==
    \/ 2 * Abs(d - r * p) < Abs(p)
    \/ 2 * Abs(d - r * p) = Abs(p) /\ r % 2 = 0

EffectiveCount(n, period_ms, duration_ms) ==
    IF duration_ms > 0
    THEN Max(1, CHOOSE r \in -duration_ms .. duration_ms : IsNearest(r, duration_ms, period_ms))
    ELSE Max(1, n)

\* C1: in every reachable state the handle is present iff the device index is
\* set iff the properties are non-empty; and once vision_stop has returned, a
\* vision_status reports open=false, no index and empty props.
C1_SessionFieldsAgree ==
    /\ (CAM.cap # None) <=> (CAM.index # None)
    /\ (CAM.index # None) <=> (CAM.props # EmptyProps)
    /\ Returned("vision_stop") =>
          StatusReport(CAM, opened) =
              [op |-> "vision_status", open |-> FALSE, index |-> None, props |-> EmptyProps]

\* vision_stop has returned after releasing the handle of an open session
C1_StopClosedAnOpenSession ==
    Returned("vision_stop") /\ Events("release") # <<>>

\* C2 as stated: at every point at most one device handle is acquired and not
\* yet released, also while list_cameras probes.
C2_AtMostOneHandle == Cardinality(handles) <= 1

\* C2 amended: the session holds at most one handle, and besides it only the
\* handle of the probe in progress is held, between the try body and the
\* finally clause of one list_cameras iteration; so at most two in all.
C2_OneSessionHandleOneProbeHandle ==
    /\ SessionHandles \subseteq handles
    /\ Cardinality(handles \ SessionHandles) <= (IF pc = "probe_finally" THEN 1 ELSE 0)
    /\ Cardinality(handles) <= 2

\* list_cameras holds a probe handle while the session holds its own
C2_ProbeBesideSession == Cardinality(handles) = 2 /\ CAM.cap # None

\* C3: the session fields change only in a vision_stop and in a vision_start
\* that succeeds from the closed state; a vision_start made while a handle is
\* present returns ok=true, "Camera already open" and changes nothing.
C3_SessionFrame ==
    [][ /\ CAM' # CAM =>
             \/ result'.op = "vision_stop"
             \/ /\ result'.op = "vision_start"
                /\ CAM.cap = None
                /\ "ok" \in DOMAIN result'
                /\ result'.ok
        /\ (pc = "idle" /\ pc' = "returned" /\ result'.op = "vision_start" /\ CAM.cap # None) =>
             /\ "ok" \in DOMAIN result'
             /\ result'.ok
             /\ result'.message = [text |-> "Camera already open"]
             /\ CAM' = CAM
      ]_vars

\* vision_start has returned "Camera already open"
C3_StartWhileOpen ==
    /\ Returned("vision_start")
    /\ "message" \in DOMAIN result
    /\ result.message = [text |-> "Camera already open"]
    /\ CAM.cap # None

\* C4 as stated: vision_capture and vision_burst raise nothing past the tool
\* boundary, and whenever a device, encoder or filesystem step failed they
\* return ok=false with an error field.
C4_ErrorsAreStructured ==
    (pc = "returned" /\ result.op \in {"vision_capture", "vision_burst"}) =>
        /\ "raised" \notin DOMAIN result
        /\ (\E k \in DOMAIN log : ~log[k].ok) =>
              ("ok" \in DOMAIN result /\ ~result.ok /\ "error" \in DOMAIN result)

\* C5: when vision_burst returns ok=false from its frame loop at frame k, paths
\* is exactly the files of frames 0..k-1 in order, those are the only files
\* written, every frame below k was read and encoded once and successfully,
\* frame k was read at most once, and no frame above k was read.
C5_PartialPathsOnFailure ==
    (Returned("vision_burst") /\ "paths" \in DOMAIN result /\ ~result.ok) =>
        LET k == burst.i
        IN /\ k < LoopCount(burst.n)
           /\ result.paths = BurstPaths(k)
           /\ Indexes(Events("write")) = UpTo(k)
           /\ Indexes(Events("read")) \in {UpTo(k), UpTo(k + 1)}
           /\ Indexes(Events("encode")) \in {UpTo(k), UpTo(k + 1)}
           /\ \A j \in DOMAIN log : log[j].i < k => log[j].ok

\* the third of five frames failed
C5_ThirdOfFiveFails ==
    /\ Returned("vision_burst")
    /\ "paths" \in DOMAIN result
    /\ ~result.ok
    /\ LoopCount(burst.n) = 5
    /\ burst.i = 2
    /\ Len(result.paths) = 2

\* C6: a vision_burst on an open session in which every device, encoder and
\* filesystem step succeeds returns ok=true having written exactly E files,
\* E = max(1, round(duration_ms / period_ms)) when duration_ms > 0 (whatever n)
\* and E = max(1, n) otherwise, with suffixes 0..E-1 in increasing order, paths
\* in that order and n = E.  (E is defined when period_ms # 0 or duration_ms = 0.)
C6_ExactlyEFiles ==
    ( /\ Returned("vision_burst")
      /\ \A k \in DOMAIN log : log[k].ok
      /\ ~("error" \in DOMAIN result
           /\ result.error \in {"Camera not open", "Failed to read frame: Camera not open"})
      /\ burst.duration_ms > 0 => burst.period_ms # 0 ) =>
        LET E == EffectiveCount(burst.n_arg, burst.period_ms, burst.duration_ms)
        IN /\ "ok" \in DOMAIN result
           /\ result.ok
           /\ Indexes(Events("write")) = UpTo(E)
           /\ result.paths = BurstPaths(E)
           /\ result.n = E

\* duration_ms = 5 and period_ms = 2 gave two files although n was 3
C6_DurationOverridesN ==
    /\ Returned("vision_burst")
    /\ "ok" \in DOMAIN result
    /\ result.ok
    /\ burst.duration_ms = 5
    /\ burst.period_ms = 2
    /\ burst.n_arg = 3
    /\ result.n = 2

\* C7: on a closed session vision_capture and vision_burst return ok=false
\* having read no frame and touched no file or directory; vision_burst's error
\* is "Camera not open".
C7_ClosedSessionTouchesNothing ==
    (pc = "returned" /\ result.op \in {"vision_capture", "vision_burst"} /\ CAM.cap = None) =>
        /\ "ok" \in DOMAIN result
        /\ ~result.ok
        /\ log = <<>>
        /\ result.op = "vision_burst" => result.error = "Camera not open"

\* vision_burst has returned on a closed session
C7_BurstWhileClosed == Returned("vision_burst") /\ CAM.cap = None

\* C8: list_cameras(max_index), max_index >= 0, returns max_index entries with
\* index 0..max_index-1 in order whatever the probes did, and has released
\* every handle it acquired: each acquisition is followed at once by the
\* release of that handle, and only the session's handle is left.
C8_OneEntryPerIndex ==
    (Returned("list_cameras") /\ probe.max_index >= 0) =>
        /\ [k \in 1 .. Len(result.cameras) |-> result.cameras[k].index] = UpTo(probe.max_index)
        /\ handles = SessionHandles
        /\ \A k \in DOMAIN log : log[k].ev = "acquire" =>
              /\ k + 1 \in DOMAIN log
              /\ log[k + 1].ev = "release"
              /\ log[k + 1].h = log[k].h

\* the probe of index 0 raised and the probe of index 1 opened
C8_FailureThenOpen ==
    /\ Returned("list_cameras")
    /\ Len(result.cameras) = 2
    /\ "error" \in DOMAIN result.cameras[1]
    /\ result.cameras[2].open

\* C9: the read of frame i never starts before t0 + i * period_ms; it starts
\* at that instant when the loop came round no later than it, and with no
\* sleep when the loop came round after it.
C9_FixedRateSchedule ==
    burst.last_i >= 0 =>
        LET target == burst.t0 + burst.last_i * burst.period_ms
        IN /\ burst.last_start >= target
           /\ burst.last_now <= target => burst.last_start = target
           /\ burst.last_now > target => burst.last_start = burst.last_now

\* period 2: a slow frame 0 made frame 1 start late, at 3, and frame 2 was
\* still read at its own target, 4
C9_BackOnSchedule ==
    /\ burst.period_ms = 2
    /\ burst.last_i = 2
    /\ burst.last_now = 3
    /\ burst.last_start = 4

\* C10 as stated: once vision_start has returned ok=true, a vision_status made
\* next reports open=true with the same index, and a vision_capture made next
\* does not fail with "Camera not open".
C10_StartAgreesWithStatus ==
    (Returned("vision_start") /\ "ok" \in DOMAIN result /\ result.ok) =>
        /\ StatusReport(CAM, opened).open
        /\ StatusReport(CAM, opened).index = result.index
        /\ grab_frame(CAM, opened, TRUE).msg # "Camera not open"
====
